---- MODULE Spec2Model ----
(***************************************************************************)
(* Model of src/utils/transforms.py: the BraTS label encoder               *)
(* (ConvertToMultiChannelBasedOnBratsClassesd) and the label decoder       *)
(* (ConvertToBratsClassesBasedOnMultiChannel).                             *)
(*                                                                         *)
(* A single-channel volume is a sequence of voxel values; a 3-channel      *)
(* volume is a sequence <<TC, WT, ET>> of three such sequences.  A sample  *)
(* is a mapping (function) from key names to volumes.  Boolean tensors are *)
(* kept as BOOLEAN and converted to numbers where torch converts them.     *)
(***************************************************************************)
EXTENDS Integers, Sequences, FiniteSets, TLC

VARIABLES pc, status, origin, data, data0, keys, d, pred, pred0, output, new_data

vars == <<pc, status, origin, data, data0, keys, d, pred, pred0, output, new_data>>

(* ------------------------------ bounds --------------------------------- *)
MaxVox == 2
MaxLabel == 4

LabelVals == -1 .. MaxLabel
ImageVals == {0, 2}
Bin == {0, 1}

SeqsOver(S) == UNION {[1..n -> S] : n \in 1..MaxVox}

LabelVolumes == SeqsOver(LabelVals)

Samples ==
    UNION {
        {[k \in {"label"} |-> x]}
        \cup {[k \in {"image"} |-> im] : im \in [1..Len(x) -> ImageVals]}
        \cup {[k \in {"image", "label"} |-> IF k = "label" THEN x ELSE im]
                : im \in [1..Len(x) -> ImageVals]}
        : x \in LabelVolumes}

KeyTuples == {<<"label">>, <<"image", "label">>}

Predictions ==
    UNION {{<<tc, wt, et>> : tc \in [1..n -> Bin], wt \in [1..n -> Bin], et \in [1..n -> Bin]}
           : n \in 1..MaxVox}

NoDict == [k \in {} |-> <<>>]
NoTensor == <<>>

(* --------------------------- tensor helpers ---------------------------- *)
\* bool -> number, as torch does for .float(), torch.mul and torch.add
B2N(b) == IF b THEN 1 ELSE 0

\* truth value torch.logical_or gives a number
Truthy(v) == v # 0

LogicalOr(a, b) == a \/ b

\* dict(data): a new mapping with the same entries
DictCopy(m) == [k \in DOMAIN m |-> m[k]]

(* ------------------------------ encoder -------------------------------- *)
ChannelTC_only3(v) == v = 3

\* merge label 2 and label 3 to construct TC
ChannelTC(v) == LogicalOr(v = 2, v = 3)

ChannelWT_no3(v) == LogicalOr(v = 2, v = 1)

\* merge labels 1, 2 and 3 to construct WT
ChannelWT(v) == LogicalOr(LogicalOr(v = 2, v = 3), v = 1)

\* label 2 is ET
ChannelET(v) == v = 2

\* torch.stack(result, axis=0).float()
StackFloat(x) ==
    << [i \in DOMAIN x |-> B2N(ChannelTC(x[i]))],
       [i \in DOMAIN x |-> B2N(ChannelWT(x[i]))],
       [i \in DOMAIN x |-> B2N(ChannelET(x[i]))] >>

EncodeKeys_all(m, ks, i) ==
    IF \E j \in i..Len(ks) : ks[j] \notin DOMAIN m
    THEN [status |-> "KeyError", d |-> NoDict]
    ELSE [status |-> "returned", d |-> [k \in DOMAIN m |-> StackFloat(m[k])]]

\* for key in self.keys: ... d[key] = torch.stack(result, axis=0).float()
RECURSIVE EncodeKeys(_, _, _)
EncodeKeys(m, ks, i) ==
    IF i > Len(ks)
    THEN [status |-> "returned", d |-> m]
    ELSE IF ks[i] \notin DOMAIN m
         THEN [status |-> "KeyError", d |-> NoDict]
         ELSE EncodeKeys([m EXCEPT ![ks[i]] = StackFloat(m[ks[i]])], ks, i + 1)

\* ConvertToMultiChannelBasedOnBratsClassesd.__call__
EncoderCall(m, ks) == EncodeKeys(DictCopy(m), ks, 1)

(* ------------------------------ decoder -------------------------------- *)
InputTC(c) == c[1]
InputWT(c) == c[2]
InputET(c) == c[3]

\* output_dict["label2"] = input_dict["ET"]
Label2Mask(c) == InputET(c)

\* output_dict["label3"] = logical_or(TC, ET != 1)
Label3Mask(c) ==
    [i \in DOMAIN InputTC(c) |-> LogicalOr(Truthy(InputTC(c)[i]), InputET(c)[i] # 1)]

\* output_dict["label1"] = logical_or(WT, logical_or(label2 != 1, label3 != 1))
Label1Mask(c) ==
    [i \in DOMAIN InputWT(c) |->
        LogicalOr(Truthy(InputWT(c)[i]),
                  LogicalOr(Label2Mask(c)[i] # 1, B2N(Label3Mask(c)[i]) # 1))]

\* torch.mul(mask, k) on a boolean mask
MulMask(mask, k) == [i \in DOMAIN mask |-> B2N(mask[i]) * k]

\* torch.mul(t, k) on an integer tensor
MulInt(t, k) == [i \in DOMAIN t |-> t[i] * k]

\* output_dict["label2"] = mul(label1, 1); output_dict["label2"] = mul(label2, 2)
Label2Values(c) == MulInt(MulMask(Label1Mask(c), 1), 2)

\* output_dict["label3"] = mul(label3, 3)
Label3Values(c) == MulMask(Label3Mask(c), 3)

\* output = add(label1, add(label2, label3))
MergeOutput(c) ==
    [i \in DOMAIN InputTC(c) |->
        B2N(Label1Mask(c)[i]) + (Label2Values(c)[i] + Label3Values(c)[i])]

\* assert(torch.any(output>3))
AssertPasses(out) == \E i \in DOMAIN out : out[i] > 3

\* data.set_array(output): the merged volume is copied into the caller's
\* 3-channel tensor, broadcast over the channel axis
SetArray(c, out) == [ch \in DOMAIN c |-> out]

\* ConvertToBratsClassesBasedOnMultiChannel.__call__
DecoderCall(c) ==
    LET out == MergeOutput(c) IN
    IF AssertPasses(out)
    THEN [status |-> "returned", output |-> out, data |-> SetArray(c, out), new_data |-> out]
    ELSE [status |-> "AssertionError", output |-> out, data |-> c, new_data |-> NoTensor]

(* ------------------------------ actions -------------------------------- *)
Init ==
    /\ pc = "start"
    /\ status = "none"
    /\ origin = "input"
    /\ data = NoDict
    /\ data0 = NoDict
    /\ keys = <<>>
    /\ d = NoDict
    /\ pred = NoTensor
    /\ pred0 = NoTensor
    /\ output = NoTensor
    /\ new_data = NoTensor

\* a sample is loaded and handed to the encoder configured with keys ks
LoadSample ==
    \E m \in Samples, ks \in KeyTuples :
        /\ pc' = "sample_loaded"
        /\ status' = "none"
        /\ origin' = "input"
        /\ data' = m
        /\ data0' = m
        /\ keys' = ks
        /\ d' = NoDict
        /\ pred' = NoTensor
        /\ pred0' = NoTensor
        /\ output' = NoTensor
        /\ new_data' = NoTensor

\* ConvertToMultiChannelBasedOnBratsClassesd(keys)(data)
CallEncoder ==
    /\ pc = "sample_loaded"
    /\ LET r == EncoderCall(data, keys) IN
        /\ status' = r.status
        /\ d' = r.d
    /\ pc' = "encoded"
    /\ UNCHANGED <<origin, data, data0, keys, pred, pred0, output, new_data>>

\* a thresholded 3-channel prediction is handed to the decoder
LoadPrediction ==
    \E c \in Predictions :
        /\ pc' = "pred_loaded"
        /\ status' = "none"
        /\ origin' = "input"
        /\ pred' = c
        /\ pred0' = c
        /\ data' = NoDict
        /\ data0' = NoDict
        /\ keys' = <<>>
        /\ d' = NoDict
        /\ output' = NoTensor
        /\ new_data' = NoTensor

\* ConvertToBratsClassesBasedOnMultiChannel()(pred)
CallDecoder ==
    /\ pc = "pred_loaded"
    /\ LET r == DecoderCall(pred) IN
        /\ status' = r.status
        /\ output' = r.output
        /\ pred' = r.data
        /\ new_data' = r.new_data
        \* the encoder's d["label"] is the very tensor the decoder was given
        /\ d' = IF origin = "encoder" THEN [d EXCEPT !["label"] = r.data] ELSE d
    /\ pc' = "decoded"
    /\ UNCHANGED <<origin, data, data0, keys, pred0>>

\* decode(encode(x)): the encoded label is handed to the decoder
PassEncodedToDecoder ==
    /\ pc = "encoded"
    /\ status = "returned"
    /\ origin = "input"
    /\ keys = <<"label">>
    /\ pred' = d["label"]
    /\ pred0' = d["label"]
    /\ origin' = "encoder"
    /\ status' = "none"
    /\ pc' = "pred_loaded"
    /\ output' = NoTensor
    /\ new_data' = NoTensor
    /\ UNCHANGED <<data, data0, keys, d>>

\* encode(decode(c)): the decoded volume is handed to the encoder as the label
PassDecodedToEncoder ==
    /\ pc = "decoded"
    /\ status = "returned"
    /\ origin = "input"
    /\ data' = [k \in {"label"} |-> new_data]
    /\ data0' = [k \in {"label"} |-> new_data]
    /\ keys' = <<"label">>
    /\ d' = NoDict
    /\ origin' = "decoder"
    /\ status' = "none"
    /\ pc' = "sample_loaded"
    /\ UNCHANGED <<pred, pred0, output, new_data>>

Next ==
    \/ LoadSample
    \/ CallEncoder
    \/ LoadPrediction
    \/ CallDecoder
    \/ PassEncodedToDecoder
    \/ PassDecodedToEncoder

Spec == Init /\ [][Next]_vars

(* ------------------------------ properties ----------------------------- *)
KeySet == {keys[i] : i \in DOMAIN keys}
Voxels(c) == DOMAIN c[1]
Triple(c, i) == <<c[1][i], c[2][i], c[3][i]>>
ValidLabels(x) == \A i \in DOMAIN x : x[i] \in 0..3
Consistent(c) ==
    \A i \in Voxels(c) : (c[3][i] = 1 => c[1][i] = 1) /\ (c[1][i] = 1 => c[2][i] = 1)

\* the label the specification assigns to a (TC, WT, ET) triple
SpecLabel(t) ==
    IF t[3] = 1 THEN 2
    ELSE IF t[1] = 1 THEN 3
    ELSE IF t[2] = 1 THEN 1
    ELSE 0

\* what a caller observes for one voxel of a decoder call
VoxelOutcome(r, i) ==
    IF r.status = "returned"
    THEN [status |-> r.status, value |-> r.new_data[i]]
    ELSE [status |-> r.status, value |-> -1]

\* C1: round trip - decoding the encoder's output of a label volume with
\* voxels in {0,1,2,3} returns that label volume, voxel for voxel.
C1_RoundTrip ==
    (pc = "decoded" /\ origin = "encoder" /\ ValidLabels(data0["label"]))
        => (status = "returned" /\ new_data = data0["label"])

\* C2: the encoder output of every encoded key has exactly three channels in
\* the order (TC, WT, ET); TC = 1 iff the label is 2 or 3, WT = 1 iff the
\* label is 1, 2 or 3, ET = 1 iff the label is 2; every value is 0 or 1.
C2_EncoderChannels ==
    (pc = "encoded" /\ status = "returned") =>
        \A k \in KeySet :
            /\ DOMAIN d[k] = 1..3
            /\ \A ch \in 1..3 : DOMAIN d[k][ch] = DOMAIN data0[k]
            /\ \A i \in DOMAIN data0[k] :
                /\ d[k][1][i] \in {0, 1} /\ d[k][2][i] \in {0, 1} /\ d[k][3][i] \in {0, 1}
                /\ d[k][1][i] = 1 <=> data0[k][i] \in {2, 3}
                /\ d[k][2][i] = 1 <=> data0[k][i] \in {1, 2, 3}
                /\ d[k][3][i] = 1 <=> data0[k][i] = 2

C2_Witness ==
    /\ pc = "encoded" /\ status = "returned" /\ origin = "input"
    /\ keys = <<"image", "label">>
    /\ data0["label"] = <<2, MaxLabel>>
    /\ d["label"] = <<(<<1, 0>>), (<<1, 0>>), (<<1, 0>>)>>

\* C3: the decoder output at a voxel is 2 if ET = 1; 3 if TC = 1 and ET = 0;
\* 1 if WT = 1 and TC = 0 and ET = 0; 0 otherwise.
C3_DecoderLabels ==
    (pc = "decoded" /\ status = "returned") =>
        \A i \in Voxels(pred0) : new_data[i] = SpecLabel(Triple(pred0, i))

\* C4: the decoder's assertion on its merged output holds for every binary
\* 3-channel input, so the decoder always returns a volume.
C4_AssertionHolds ==
    pc = "decoded" => (AssertPasses(output) /\ status = "returned")

\* C5: every voxel of the merged volume label1 + label2 + label3 lies in
\* the label domain {0,1,2,3}.
C5_MergedInDomain ==
    pc = "decoded" => \A i \in DOMAIN output : output[i] \in 0..3

\* C6: the encoder output is nested for every integer label volume:
\* TC = 1 implies WT = 1, and ET = 1 implies WT = 1, at every voxel.
C6_Nested ==
    (pc = "encoded" /\ status = "returned") =>
        \A k \in KeySet : \A i \in DOMAIN data0[k] :
            /\ d[k][1][i] = 1 => d[k][2][i] = 1
            /\ d[k][3][i] = 1 => d[k][2][i] = 1

C6_Witness ==
    /\ pc = "encoded" /\ status = "returned" /\ origin = "input"
    /\ "label" \in KeySet
    /\ data0["label"] = <<3, -1>>
    /\ d["label"][1] = <<1, 0>>
    /\ d["label"][2] = <<1, 0>>

\* C7: the decoder leaves the caller's input volume as it was before the call.
C7_DecoderPure ==
    pc = "decoded" => pred = pred0

\* C8: the encoder returns a mapping with the key set of its input, entries
\* whose key is not in self.keys are the input's entries, and the mapping
\* passed by the caller still holds what it held before the call.
C8_EncoderFrame ==
    (pc = "encoded" /\ status = "returned") =>
        /\ DOMAIN d = DOMAIN data0
        /\ \A k \in DOMAIN d \ KeySet : d[k] = data0[k]
        /\ data = data0

C8_Witness ==
    /\ pc = "encoded" /\ status = "returned"
    /\ keys = <<"label">>
    /\ DOMAIN data0 = {"image", "label"}
    /\ data0["image"] = <<2, 0>>
    /\ d["image"] = <<2, 0>>
    /\ d["label"] # data0["label"]
    /\ data["label"] = <<2, 1>>

\* C9: what a caller observes for a voxel (the decoded value, or that the call
\* did not return) is determined by that voxel's (TC, WT, ET) triple alone:
\* it is the same for an equal triple in any other volume.
C9_VoxelWise ==
    pc = "decoded" =>
        \A b \in Predictions : \A i \in Voxels(pred0) : \A j \in Voxels(b) :
            Triple(pred0, i) = Triple(b, j) =>
                VoxelOutcome([status |-> status, new_data |-> new_data], i)
                    = VoxelOutcome(DecoderCall(b), j)

\* C10: for a consistent 3-channel volume c (ET => TC => WT at every voxel),
\* encoding the decoder's output reproduces c.
C10_RightInverse ==
    (pc = "encoded" /\ origin = "decoder" /\ Consistent(pred0))
        => (status = "returned" /\ d["label"] = pred0)

====
